---- MODULE Spec2Model ----
(***************************************************************************)
(* Grievance intake: the category classifier (backend/nlp.py) and the      *)
(* complaint submission handler with its CSV export (backend/app.py).      *)
(*                                                                         *)
(* The files on disk (dataset, model artifact, CSV export) and the         *)
(* complaints table are the shared state.  One training process runs       *)
(* train_model statement by statement; Requests are concurrent POSTs       *)
(* running complaint_page, which calls predict_category and update_csv.    *)
(* A statement that touches only locals is taken together with the         *)
(* statement before it that reads or writes shared state.                  *)
(*                                                                         *)
(* scikit-learn, joblib and pandas are libraries outside the repository.   *)
(* They are modelled by what the code relies on: train_test_split by a     *)
(* fixed (seeded) choice of the held-out rows, TfidfVectorizer by its      *)
(* vocabulary (stop words removed) and term counts, LogisticRegression by  *)
(* its classes_ (the sorted labels of the training subset), a coefficient  *)
(* matrix and intercepts with argmax prediction, joblib.dump/load by a     *)
(* token stream written to the file in blocks and parsed back.             *)
(***************************************************************************)
EXTENDS Integers, Sequences, FiniteSets, TLC

\* ------------------------------------------------------------------ bounds
\* train_model invocations explored.
MaxTrainRuns == 2
\* Tokens one buffered write of joblib.dump puts into the file.
BlockLen == 9

\* The complaint submissions (POST requests to complaint_page); Flask serves
\* them in threads, so they interleave statement by statement.
Requests == {"r1", "r2"}

\* ------------------------------------------------------------ vocabulary
\* Words and labels in sorted order (Python sorts vocabulary and classes_).
WordOrder == <<"internet", "road", "the", "water">>
LabelOrder == <<"Network", "Road", "Water">>
\* TfidfVectorizer(stop_words="english")
StopWords == {"the"}

Range(s) == {s[i] : i \in DOMAIN s}

RECURSIVE SumSeq(_)
SumSeq(s) == IF s = <<>> THEN 0 ELSE Head(s) + SumSeq(Tail(s))

\* Occurrences of word w in the text t (a sequence of words).
Count(w, t) == Cardinality({i \in DOMAIN t : t[i] = w})

\* ---------------------------------------------------------------- datasets
\* What may lie at DATA_PATH: no file, or a CSV with some columns and rows
\* <<Complaint_Text, Category>> (a missing column's cells are never read).
Row(t, l) == [text |-> t, label |-> l]
NoFile == [exists |-> FALSE, columns |-> {}, rows |-> <<>>]
CsvFile(cols, rows) == [exists |-> TRUE, columns |-> cols, rows |-> rows]

BothCols == {"Complaint_Text", "Category"}

RowsA == << Row(<<"internet">>, "Network"),
            Row(<<"road">>, "Road"),
            Row(<<"water">>, "Water"),
            Row(<<"internet", "the">>, "Network"),
            Row(<<"water", "water">>, "Water") >>
RowsB == << Row(<<"road", "internet">>, "Road"),
            Row(<<"water">>, "Water"),
            Row(<<"road">>, "Road"),
            Row(<<"the", "road">>, "Road") >>
RowsOneClass == << Row(<<"water">>, "Water"),
                   Row(<<"internet">>, "Water"),
                   Row(<<"road">>, "Water") >>

DataFiles == { NoFile,
               CsvFile(BothCols, RowsA),
               CsvFile(BothCols, RowsB),
               CsvFile(BothCols, RowsOneClass),
               CsvFile({"Complaint_Text"}, RowsA),
               CsvFile({"Category"}, RowsA) }

\* The label column of a dataset.
LabelColumn(df) == {df.rows[i].label : i \in DOMAIN df.rows}

\* ------------------------------------------------------- the fitted model
NoModel == [classes |-> <<>>, intercept |-> <<>>, vocab |-> <<>>, coef |-> <<>>]

\* train_test_split(X, y, test_size=0.2, random_state=42): ceil(0.2 n) rows
\* are held out.  The seeded permutation is fixed per n; its values are the
\* library's, and the held-out rows are taken here from the front.
NTest(n) == (n + 4) \div 5
TrainRows(rows) == SubSeq(rows, NTest(Len(rows)) + 1, Len(rows))

\* TfidfVectorizer.fit: the sorted non-stop words of the training texts.
Vocabulary(train) ==
  SelectSeq(WordOrder,
            LAMBDA w : w \notin StopWords
                       /\ \E i \in DOMAIN train : w \in Range(train[i].text))

\* LogisticRegression.fit: classes_ are the sorted labels of y_train.
Classes(train) ==
  SelectSeq(LabelOrder, LAMBDA l : \E i \in DOMAIN train : train[i].label = l)

\* What makes model.fit raise ValueError: an empty training subset, an empty
\* vocabulary, or fewer than two classes.
FitRaises(rows) ==
  LET train == TrainRows(rows)
  IN  \/ Len(rows) = 0
      \/ Len(train) = 0
      \/ Vocabulary(train) = <<>>
      \/ Len(Classes(train)) < 2

\* model.fit(X_train, y_train): coef[i][j] weighs word j for class i (here
\* the occurrences of the word in the class's training texts), intercept[i]
\* the class's share of the training rows.
Fit(rows) ==
  LET train == TrainRows(rows)
      cls == Classes(train)
      voc == Vocabulary(train)
      of(l) == SelectSeq(train, LAMBDA r : r.label = l)
  IN  [classes |-> cls,
       intercept |-> [i \in DOMAIN cls |-> Len(of(cls[i]))],
       vocab |-> voc,
       coef |-> [i \in DOMAIN cls |->
                   [j \in DOMAIN voc |->
                      SumSeq([k \in DOMAIN of(cls[i]) |->
                                Count(voc[j], of(cls[i])[k].text)])]]]

\* The decision value of class i for the text: the text is projected on the
\* frozen vocabulary (unseen words and stop words contribute nothing).
Dot(m, i, text) ==
  SumSeq([j \in DOMAIN m.vocab |-> m.coef[i][j] * Count(m.vocab[j], text)])

Beats(m, i, k, text) ==
  \/ Dot(m, i, text) > Dot(m, k, text)
  \/ /\ Dot(m, i, text) = Dot(m, k, text)
     /\ m.intercept[i] > m.intercept[k]

\* Predict with the class index looked up in the global label table instead
\* of the model's own classes_.
Predict_GlobalLabels(m, text) ==
  LET best == {i \in DOMAIN m.classes :
                 \A k \in DOMAIN m.classes : ~Beats(m, k, i, text)}
      first == CHOOSE i \in best : \A k \in best : i <= k
  IN  LabelOrder[first]

\* model.predict([text])[0]: the class of the largest decision value, the
\* first such class on a tie (argmax).
Predict(m, text) ==
  LET best == {i \in DOMAIN m.classes :
                 \A k \in DOMAIN m.classes : ~Beats(m, k, i, text)}
      first == CHOOSE i \in best : \A k \in best : i <= k
  IN  m.classes[first]

\* --------------------------------------------------- joblib.dump / load
\* The pickle of the pipeline as a token stream: the classes with their
\* intercepts, the vocabulary, the coefficient matrix row by row, and a
\* closing STOP token carrying the number of coefficients.
Tok(k, s, n) == [k |-> k, s |-> s, n |-> n]

RECURSIVE Flatten(_)
Flatten(ss) == IF ss = <<>> THEN <<>> ELSE Head(ss) \o Flatten(Tail(ss))

\* Dump that leaves the intercepts out of the stream.
Dump_NoIntercept(m) ==
  <<Tok("classes", "", Len(m.classes))>>
  \o [i \in DOMAIN m.classes |-> Tok("class", m.classes[i], 0)]
  \o <<Tok("vocab", "", Len(m.vocab))>>
  \o [j \in DOMAIN m.vocab |-> Tok("word", m.vocab[j], j)]
  \o Flatten([i \in DOMAIN m.classes |->
                [j \in DOMAIN m.vocab |-> Tok("coef", "", m.coef[i][j])]])
  \o <<Tok("stop", "", Len(m.classes) * Len(m.vocab))>>

Dump(m) ==
  <<Tok("classes", "", Len(m.classes))>>
  \o [i \in DOMAIN m.classes |-> Tok("class", m.classes[i], m.intercept[i])]
  \o <<Tok("vocab", "", Len(m.vocab))>>
  \o [j \in DOMAIN m.vocab |-> Tok("word", m.vocab[j], j)]
  \o Flatten([i \in DOMAIN m.classes |->
                [j \in DOMAIN m.vocab |-> Tok("coef", "", m.coef[i][j])]])
  \o <<Tok("stop", "", Len(m.classes) * Len(m.vocab))>>

\* joblib.load: parses the stream back; a file that ends before its STOP
\* token (empty, or a prefix of a pickle) makes it raise (EOFError).
Load(bytes) ==
  LET nc == IF Len(bytes) >= 1 THEN bytes[1].n ELSE 0
      vAt == nc + 2
      nv == IF Len(bytes) >= vAt THEN bytes[vAt].n ELSE 0
      cAt == vAt + nv
      total == cAt + nc * nv + 1
      whole == /\ Len(bytes) >= 1
               /\ Len(bytes) >= vAt
               /\ Len(bytes) = total
               /\ bytes[total] = Tok("stop", "", nc * nv)
  IN  IF ~whole
      THEN [ok |-> FALSE, model |-> NoModel]
      ELSE [ok |-> TRUE,
            model |->
              [classes |-> [i \in 1..nc |-> bytes[1 + i].s],
               intercept |-> [i \in 1..nc |-> bytes[1 + i].n],
               vocab |-> [j \in 1..nv |-> bytes[vAt + j].s],
               coef |-> [i \in 1..nc |->
                           [j \in 1..nv |-> bytes[cAt + (i - 1) * nv + j].n]]]]

\* ------------------------------------------------------------------ state
VARIABLES
  data_file,    \* the dataset at DATA_PATH
  model_file,   \* the artifact at MODEL_PATH: [exists, bytes]
  complaints,   \* the rows of the complaints table, in id order
  csv_file,     \* the rows of the export at CSV_PATH
  req,          \* per submission: where complaint_page stands, its locals
                \* (with the outcome of its predict_category call and the
                \* model that call loaded), and the message it rendered
  trainer,      \* where train_model stands, and its locals
  runs,         \* train_model invocations so far
  last_saved,   \* history: the file as the last completed joblib.dump left
                \* it, and the label column of the dataset that run had read
  labels_seen   \* history: the labels of the datasets of all completed runs

vars == <<data_file, model_file, complaints, csv_file, req, trainer, runs,
          last_saved, labels_seen>>

\* ----------------------------------------------------------------- inputs
\* Complaint texts, typed or returned by OCR / transcription: the empty
\* text, a text of an unseen word and a stop word, texts of known words.
Texts == { <<>>, <<"light", "the">>, <<"internet">>, <<"road">> }

\* The submitted forms: username (from the URL), village_name, ctype,
\* complaint_text, and the uploaded file (absent, or present with the text
\* the recognizer reads from it).
Form(u, v, c, t, present, content) ==
  [username |-> u, village_name |-> v, ctype |-> c, complaint_text |-> t,
   file |-> [present |-> present, content |-> content]]
Forms == { Form("asha", "rampur", "text", <<"internet">>, FALSE, <<>>),
           Form("ravi", "sonpur", "image", <<>>, TRUE, <<"light", "the">>),
           Form("asha", "sonpur", "audio", <<"road">>, FALSE, <<>>) }

NoArtifact == [exists |-> FALSE, bytes |-> <<>>]
NoMessage == [text |-> "", category |-> ""]
Message(category) ==
  [text |-> "Complaint submitted! Predicted category: ", category |-> category]

IdleReq == [pc |-> "idle", username |-> "", village_name |-> "", ctype |-> "",
            text |-> <<>>, outcome |-> "", model |-> NoModel,
            category |-> "", df |-> <<>>, rid |-> 0, message |-> NoMessage]

\* warned: the fit issued a ConvergenceWarning (it stopped at max_iter).
IdleTrainer == [pc |-> "idle", df |-> NoFile, model |-> NoModel,
                warned |-> FALSE, result |-> ""]

Init ==
  /\ data_file = NoFile
  /\ model_file = NoArtifact
  /\ complaints = <<>>
  /\ csv_file = <<>>
  /\ req = [r \in Requests |-> IdleReq]
  /\ trainer = IdleTrainer
  /\ runs = 0
  /\ last_saved = [file |-> NoArtifact, labels |-> {}]
  /\ labels_seen = {}

\* ------------------------------------------------------------ train_model
\* The dataset file is written (or removed) from outside the program, and
\* only lines 27 and 30 of train_model read DATA_PATH: d is the file that
\* lies there when the statement looks.
\*
\* Entry, and lines 27-28: os.path.exists(DATA_PATH), else FileNotFoundError.
TrainExists(d) ==
  /\ trainer.pc = "idle"
  /\ runs < MaxTrainRuns
  /\ runs' = runs + 1
  /\ data_file' = d
  /\ trainer' = IF d.exists
                THEN [IdleTrainer EXCEPT !.pc = "read_csv"]
                ELSE [IdleTrainer EXCEPT !.result = "FileNotFoundError"]
  /\ UNCHANGED <<model_file, complaints, csv_file, req, last_saved, labels_seen>>

\* Line 30: df = pd.read_csv(DATA_PATH); the file may have been replaced or
\* removed since line 27.
TrainReadCsv(d) ==
  /\ trainer.pc = "read_csv"
  /\ data_file' = d
  /\ trainer' = IF d.exists
                THEN [trainer EXCEPT !.pc = "columns", !.df = d]
                ELSE [trainer EXCEPT !.pc = "idle",
                                     !.result = "FileNotFoundError"]
  /\ UNCHANGED <<model_file, complaints, csv_file, req, runs, last_saved,
                 labels_seen>>

\* TrainColumns that removes the artifact when it rejects the dataset.
TrainColumns_Cleanup ==
  /\ trainer.pc = "columns"
  /\ IF BothCols \subseteq trainer.df.columns
     THEN /\ trainer' = [trainer EXCEPT !.pc = "fit"]
          /\ UNCHANGED model_file
     ELSE /\ trainer' = [trainer EXCEPT !.pc = "idle", !.df = NoFile,
                                        !.result = "ValueError: missing column"]
          /\ model_file' = NoArtifact
  /\ UNCHANGED <<data_file, complaints, csv_file, req, runs, last_saved,
                 labels_seen>>

\* Lines 33-36: a missing required column raises ValueError.
TrainColumns ==
  /\ trainer.pc = "columns"
  /\ trainer' = IF BothCols \subseteq trainer.df.columns
                THEN [trainer EXCEPT !.pc = "fit"]
                ELSE [trainer EXCEPT !.pc = "idle", !.df = NoFile,
                                     !.result = "ValueError: missing column"]
  /\ UNCHANGED <<data_file, model_file, complaints, csv_file, req, runs,
                 last_saved, labels_seen>>

\* TrainFit that has opened MODEL_PATH for writing before fitting.
TrainFit_OpensFirst ==
  /\ trainer.pc = "fit"
  /\ model_file' = [exists |-> TRUE, bytes |-> <<>>]
  /\ IF FitRaises(trainer.df.rows)
     THEN trainer' = [trainer EXCEPT !.pc = "idle", !.df = NoFile,
                                     !.result = "ValueError: fit"]
     ELSE \E converged \in BOOLEAN :
            trainer' = [trainer EXCEPT !.pc = "open",
                                       !.model = Fit(trainer.df.rows),
                                       !.warned = ~converged]
  /\ UNCHANGED <<data_file, complaints, csv_file, req, runs, last_saved,
                 labels_seen>>

\* Lines 38-53: split, build the pipeline, fit.  The fit raises, or returns
\* a model.  Whether the solver converges within max_iter=1000 depends on
\* the numbers, which are not modelled: either may happen, and a fit that
\* stops at the cap only warns (ConvergenceWarning) and returns its model.
TrainFit ==
  /\ trainer.pc = "fit"
  /\ IF FitRaises(trainer.df.rows)
     THEN trainer' = [trainer EXCEPT !.pc = "idle", !.df = NoFile,
                                     !.result = "ValueError: fit"]
     ELSE \E converged \in BOOLEAN :
            trainer' = [trainer EXCEPT !.pc = "open",
                                       !.model = Fit(trainer.df.rows),
                                       !.warned = ~converged]
  /\ UNCHANGED <<data_file, model_file, complaints, csv_file, req, runs,
                 last_saved, labels_seen>>

\* Lines 56-57: joblib.dump opens MODEL_PATH for writing, which creates or
\* truncates the file in place.
TrainOpen ==
  /\ trainer.pc = "open"
  /\ model_file' = [exists |-> TRUE, bytes |-> <<>>]
  /\ trainer' = [trainer EXCEPT !.pc = "write"]
  /\ UNCHANGED <<data_file, complaints, csv_file, req, runs, last_saved,
                 labels_seen>>

\* Line 57: joblib.dump writes the pickle block by block and closes the file
\* after the last block.
TrainWrite ==
  /\ trainer.pc = "write"
  /\ LET all == Dump(trainer.model)
         have == Len(model_file.bytes)
         upto == IF have + BlockLen < Len(all) THEN have + BlockLen ELSE Len(all)
     IN  /\ model_file' = [model_file EXCEPT !.bytes = SubSeq(all, 1, upto)]
         /\ IF upto = Len(all)
            THEN /\ trainer' = [trainer EXCEPT !.pc = "saved"]
                 /\ last_saved' = [file |-> model_file',
                                    labels |-> LabelColumn(trainer.df)]
                 /\ labels_seen' = labels_seen \cup LabelColumn(trainer.df)
            ELSE UNCHANGED <<trainer, last_saved, labels_seen>>
  /\ UNCHANGED <<data_file, complaints, csv_file, req, runs>>

\* Line 58: the save is reported and train_model returns; its locals are gone.
TrainReturn ==
  /\ trainer.pc = "saved"
  /\ trainer' = [trainer EXCEPT !.pc = "idle", !.df = NoFile,
                                !.model = NoModel, !.warned = FALSE,
                                !.result = "saved"]
  /\ UNCHANGED <<data_file, model_file, complaints, csv_file, req, runs,
                 last_saved, labels_seen>>

\* --------------------------------------------------------- complaint_page
\* Post whose predict_category returns a default label when no model exists.
Post_Default(r, form) ==
  /\ req[r].pc = "idle"
  /\ LET text == IF form.ctype = "text" THEN form.complaint_text
                 ELSE IF form.ctype \in {"image", "audio"} /\ form.file.present
                      THEN form.file.content
                      ELSE <<>>
         q == [IdleReq EXCEPT !.username = form.username,
                              !.village_name = form.village_name,
                              !.ctype = form.ctype, !.text = text]
     IN  req' = [req EXCEPT ![r] =
                   IF model_file.exists
                   THEN [q EXCEPT !.pc = "load"]
                   ELSE [q EXCEPT !.pc = "insert", !.outcome = "returned",
                                  !.category = "Unknown"]]
  /\ UNCHANGED <<data_file, model_file, complaints, csv_file, trainer, runs,
                 last_saved, labels_seen>>

\* Lines 76-97 and predict_category, lines 65-66.  A POST arrives; the
\* complaint text is the typed text, or for an image or audio complaint what
\* the recognizer returns for the uploaded file (the empty text when no file
\* came).  predict_category is called: no file at MODEL_PATH raises
\* FileNotFoundError, which lines 98-100 turn into the category "Unknown".
Post(r, form) ==
  /\ req[r].pc = "idle"
  /\ LET text == IF form.ctype = "text" THEN form.complaint_text
                 ELSE IF form.ctype \in {"image", "audio"} /\ form.file.present
                      THEN form.file.content
                      ELSE <<>>
         q == [IdleReq EXCEPT !.username = form.username,
                              !.village_name = form.village_name,
                              !.ctype = form.ctype, !.text = text]
     IN  req' = [req EXCEPT ![r] =
                   IF model_file.exists
                   THEN [q EXCEPT !.pc = "load"]
                   ELSE [q EXCEPT !.pc = "insert",
                                  !.outcome = "FileNotFoundError",
                                  !.category = "Unknown"]]
  /\ UNCHANGED <<data_file, model_file, complaints, csv_file, trainer, runs,
                 last_saved, labels_seen>>

\* PredictLoad that updates the model with the text it labelled and saves it.
PredictLoad_Online(r) ==
  /\ req[r].pc = "load"
  /\ LET got == Load(model_file.bytes)
         upd == [got.model EXCEPT !.intercept =
                   [i \in DOMAIN @ |-> IF got.model.classes[i] =
                                            Predict(got.model, req[r].text)
                                       THEN @[i] + 1 ELSE @[i]]]
     IN  IF got.ok
         THEN /\ req' = [req EXCEPT ![r] =
                          [@ EXCEPT !.pc = "insert", !.outcome = "returned",
                                    !.model = got.model,
                                    !.category = Predict(got.model, req[r].text)]]
              /\ model_file' = [exists |-> TRUE, bytes |-> Dump(upd)]
         ELSE /\ req' = [req EXCEPT ![r] =
                          [@ EXCEPT !.pc = "insert", !.outcome = "EOFError",
                                    !.category = "Unknown"]]
              /\ UNCHANGED model_file
  /\ UNCHANGED <<data_file, complaints, csv_file, trainer, runs, last_saved,
                 labels_seen>>

\* PredictLoad whose label also depends on how many complaints are stored.
PredictLoad_Stateful(r) ==
  /\ req[r].pc = "load"
  /\ LET got == Load(model_file.bytes)
         pick == (Len(complaints) % Len(got.model.classes)) + 1
     IN  req' = [req EXCEPT ![r] =
                   IF got.ok
                   THEN [@ EXCEPT !.pc = "insert", !.outcome = "returned",
                                  !.model = got.model,
                                  !.category = got.model.classes[pick]]
                   ELSE [@ EXCEPT !.pc = "insert", !.outcome = "EOFError",
                                  !.category = "Unknown"]]
  /\ UNCHANGED <<data_file, model_file, complaints, csv_file, trainer, runs,
                 last_saved, labels_seen>>

\* predict_category, lines 68-69: joblib.load reads the file as it is now
\* and model.predict labels the text.  A load that raises is caught by
\* complaint_page like any other exception.
PredictLoad(r) ==
  /\ req[r].pc = "load"
  /\ LET got == Load(model_file.bytes)
     IN  req' = [req EXCEPT ![r] =
                   IF got.ok
                   THEN [@ EXCEPT !.pc = "insert", !.outcome = "returned",
                                  !.model = got.model,
                                  !.category = Predict(got.model, req[r].text)]
                   ELSE [@ EXCEPT !.pc = "insert", !.outcome = "EOFError",
                                  !.category = "Unknown"]]
  /\ UNCHANGED <<data_file, model_file, complaints, csv_file, trainer, runs,
                 last_saved, labels_seen>>

\* NewRow with username and village_name bound in the wrong order.
NewRow_Swapped(q, id) ==
  [id |-> id, username |-> q.village_name, village_name |-> q.username,
   text |-> q.text, category |-> q.category, type |-> q.ctype]

\* The row complaint_page inserts; AUTOINCREMENT gives it the next id.
NewRow(q, id) ==
  [id |-> id, username |-> q.username, village_name |-> q.village_name,
   text |-> q.text, category |-> q.category, type |-> q.ctype]

\* Lines 103-111: INSERT and commit.  rid keeps the id the row got.
Insert(r) ==
  /\ req[r].pc = "insert"
  /\ complaints' = Append(complaints, NewRow(req[r], Len(complaints) + 1))
  /\ req' = [req EXCEPT ![r] = [@ EXCEPT !.pc = "read_sql",
                                         !.rid = Len(complaints) + 1]]
  /\ UNCHANGED <<data_file, model_file, csv_file, trainer, runs, last_saved,
                 labels_seen>>

\* update_csv, line 43: df = SELECT * FROM complaints.
ReadSql(r) ==
  /\ req[r].pc = "read_sql"
  /\ req' = [req EXCEPT ![r] = [@ EXCEPT !.pc = "to_csv", !.df = complaints]]
  /\ UNCHANGED <<data_file, model_file, complaints, csv_file, trainer, runs,
                 last_saved, labels_seen>>

\* update_csv, lines 45-48, and lines 116-118: df.to_csv(CSV_PATH) replaces
\* the export by df and update_csv returns; the page is rendered with the
\* success message and the submission is complete.
ToCsv(r) ==
  /\ req[r].pc = "to_csv"
  /\ csv_file' = req[r].df
  /\ req' = [req EXCEPT ![r] = [@ EXCEPT !.pc = "done", !.df = <<>>,
                                         !.message = Message(req[r].category)]]
  /\ UNCHANGED <<data_file, model_file, complaints, trainer, runs, last_saved,
                 labels_seen>>

\* ------------------------------------------------------------------- spec
Next ==
  \/ \E d \in DataFiles : TrainExists(d)
  \/ \E d \in DataFiles : TrainReadCsv(d)
  \/ TrainColumns
  \/ TrainFit
  \/ TrainOpen
  \/ TrainWrite
  \/ TrainReturn
  \/ \E r \in Requests, form \in Forms : Post(r, form)
  \/ \E r \in Requests : PredictLoad(r)
  \/ \E r \in Requests : Insert(r)
  \/ \E r \in Requests : ReadSql(r)
  \/ \E r \in Requests : ToCsv(r)

Spec == Init /\ [][Next]_vars

\* ------------------------------------------------------------ properties
\* The outcomes of a predict_category call that are a raised exception.
Failed == {"FileNotFoundError", "EOFError"}
\* The results of a train_model run that are a raised error.
TrainErrors == {"FileNotFoundError", "ValueError: missing column",
                "ValueError: fit"}
\* Request r takes a step.
Steps(r) == req'[r] # req[r]
\* A complete artifact lies at MODEL_PATH.
Trained == model_file.exists /\ Load(model_file.bytes).ok
\* The probe texts of the round trip.
ProbeTexts == Texts \cup {<<"road", "water">>}

\* C1: with no file at MODEL_PATH, a predict_category call (for any text, the
\* empty one included) raises the model-not-found error (FileNotFoundError)
\* and leaves the artifact, the dataset and the complaints table as they were.
C1_MissingModelRaises ==
  [][\A r \in Requests :
       (~model_file.exists /\ req[r].pc = "idle" /\ Steps(r))
         => /\ req'[r].outcome = "FileNotFoundError"
            /\ model_file' = model_file
            /\ data_file' = data_file
            /\ complaints' = complaints]_vars

\* A call with the empty text has raised FileNotFoundError.
C1_Witness ==
  \E r \in Requests : /\ req[r].outcome = "FileNotFoundError"
                      /\ req[r].text = <<>>
                      /\ req[r].pc = "insert"

\* C2: a submission whose predict_category call failed still completes: its
\* category is "Unknown", its INSERT appends exactly one row holding the
\* submitted username, village, text and type with category "Unknown", its
\* update_csv writes an export holding that row, it is never stuck, and it
\* ends with the success message.
C2_FailedPredictionStillSubmits ==
  /\ [](\A r \in Requests :
          req[r].outcome \in Failed =>
            /\ req[r].category = "Unknown"
            /\ req[r].pc # "done" =>
                 ENABLED (Insert(r) \/ ReadSql(r) \/ ToCsv(r))
            /\ req[r].pc \in {"read_sql", "to_csv", "done"} =>
                 Cardinality({i \in DOMAIN complaints :
                                complaints[i].id = req[r].rid}) = 1
            /\ req[r].pc = "done" =>
                 req[r].message = Message("Unknown"))
  /\ [][\A r \in Requests :
          (req[r].outcome \in Failed /\ Steps(r)) =>
            /\ req[r].pc = "insert" =>
                 complaints' = Append(complaints,
                                 [id |-> Len(complaints) + 1,
                                  username |-> req[r].username,
                                  village_name |-> req[r].village_name,
                                  text |-> req[r].text,
                                  category |-> "Unknown",
                                  type |-> req[r].ctype])
            /\ req[r].pc # "insert" => complaints' = complaints
            /\ req[r].pc = "to_csv" =>
                 \E i \in DOMAIN csv_file' :
                    /\ csv_file'[i].id = req[r].rid
                    /\ csv_file'[i] = complaints[req[r].rid]
                    /\ csv_file'[i].category = "Unknown"]_vars

\* A submission whose prediction failed on a partly written artifact is done.
C2_Witness ==
  \E r \in Requests : /\ req[r].outcome = "EOFError"
                      /\ req[r].pc = "done"
                      /\ req[r].username = "ravi"

\* C3: a run on a dataset without the text column or without the label
\* column raises the schema error at the column check, and neither that
\* step nor any earlier step of the run touches the artifact: after the run
\* the file is what the last completed save had written (no file when there
\* was none).
C3_SchemaInvalidWritesNothing ==
  /\ [](trainer.result = "ValueError: missing column" =>
          /\ trainer.pc = "idle"
          /\ model_file = last_saved.file)
  /\ [][(trainer.pc \in {"idle", "read_csv", "columns"} /\ trainer' # trainer)
          => /\ model_file' = model_file
             /\ (trainer.pc = "columns"
                   /\ ~(BothCols \subseteq trainer.df.columns))
                  => trainer'.result = "ValueError: missing column"]_vars

\* A run was rejected for a missing column while a prior artifact exists.
C3_Witness ==
  /\ trainer.result = "ValueError: missing column"
  /\ Trained

\* C4 as stated: every failed run, a run whose classifier did not converge
\* within the iteration cap included, is aborted and leaves at the artifact
\* path what the last successful run had written.
C4_AllOrNothing ==
  (trainer.result \in TrainErrors \/ trainer.warned) =>
    model_file = last_saved.file

\* C4 amended: a run that fails at the dataset check, the column check or
\* the fit is aborted and leaves at the artifact path what the last
\* completed save had written; a fit that stops at the iteration cap is no
\* failure (the run goes on to the save); and the file differs from the last
\* completed save only while a run is in its save step.
C4_FailureBeforeSaveWritesNothing ==
  /\ trainer.result \in TrainErrors =>
       (trainer.pc = "idle" /\ model_file = last_saved.file)
  /\ trainer.warned =>
       (trainer.pc \in {"open", "write", "saved"} /\ trainer.result = "")
  /\ model_file # last_saved.file => trainer.pc = "write"

\* A fit has raised while a prior artifact exists.
C4_Witness ==
  /\ trainer.result = "ValueError: fit"
  /\ Trained

\* C5 as stated: every label a call returned, and every stored category
\* other than "Unknown", is a label of the dataset of the run that produced
\* the current artifact.
C5_LabelsOfCurrentArtifact ==
  model_file = last_saved.file =>
    /\ \A r \in Requests :
         req[r].outcome = "returned" => req[r].category \in last_saved.labels
    /\ \A i \in DOMAIN complaints :
         complaints[i].category \in last_saved.labels \cup {"Unknown"}

\* C5 amended: a label predict_category returns is a label of the dataset of
\* the run that produced the artifact the call loaded; every stored category
\* is "Unknown" or a label of the dataset of some completed run.
C5_LabelClosure ==
  /\ [](\A i \in DOMAIN complaints :
          complaints[i].category \in labels_seen \cup {"Unknown"})
  /\ [][\A r \in Requests :
          (req[r].pc = "load" /\ Steps(r) /\ req'[r].outcome = "returned")
            => /\ model_file = last_saved.file
               /\ req'[r].category \in last_saved.labels]_vars

\* A stored category is a label of an earlier run's dataset and not of the
\* dataset behind the current artifact.
C5_Witness ==
  /\ model_file = last_saved.file
  /\ \E i \in DOMAIN complaints :
       complaints[i].category \notin last_saved.labels \cup {"Unknown"}

\* C6: a predict_category call returns a category or raises the
\* model-not-found error; it has no other outcome, also while a run is
\* writing the artifact.
C6_TwoOutcomes ==
  \A r \in Requests : req[r].outcome \in {"", "returned", "FileNotFoundError"}

\* C7: predictions never change the artifact: outside a run's save the file
\* is what the last completed save wrote, no step of a request changes it,
\* and each call returns the label of that saved model for its text.
C7_PredictionsLeaveArtifact ==
  /\ [](trainer.pc # "write" => model_file = last_saved.file)
  /\ [][\A r \in Requests :
          Steps(r) =>
            /\ model_file' = model_file
            /\ (req[r].pc = "load" /\ req'[r].outcome = "returned") =>
                 req'[r].category =
                   Predict(Load(last_saved.file.bytes).model, req[r].text)]_vars

\* Two calls have returned and no run is in progress.
C7_Witness ==
  /\ \A r \in Requests : req[r].outcome = "returned"
  /\ trainer.pc = "idle"
  /\ Trained

\* C8: two calls with the same text that loaded the same artifact return the
\* same label, whatever ran in between.
C8_Deterministic ==
  \A r1, r2 \in Requests :
    (/\ req[r1].outcome = "returned"
     /\ req[r2].outcome = "returned"
     /\ req[r1].text = req[r2].text
     /\ req[r1].model = req[r2].model)
      => req[r1].category = req[r2].category

\* Two calls with one text and one artifact have returned, the first of them
\* before the other submission's row was stored.
C8_Witness ==
  \E r1, r2 \in Requests :
    /\ r1 # r2
    /\ req[r1].outcome = "returned" /\ req[r2].outcome = "returned"
    /\ req[r1].text = req[r2].text
    /\ req[r1].model = req[r2].model
    /\ req[r1].pc = "done" /\ req[r2].pc = "insert"

\* C9: once the save is complete, the model loaded back from MODEL_PATH gives
\* every probe text the label the in-memory fitted model gives it.
C9_RoundTrip ==
  trainer.pc = "saved" =>
    LET got == Load(model_file.bytes)
    IN  /\ got.ok
        /\ \A t \in ProbeTexts :
             Predict(got.model, t) = Predict(trainer.model, t)

\* A model of three classes has been saved.
C9_Witness ==
  /\ trainer.pc = "saved"
  /\ Len(trainer.model.classes) = 3

\* C10: when a submission is complete the export holds every row committed up
\* to and including its own, and when all submissions are complete the
\* export's rows are the table's rows.
C10_CsvIsFullDump ==
  /\ \A r \in Requests :
       req[r].pc = "done" =>
         \A i \in 1..req[r].rid : complaints[i] \in Range(csv_file)
  /\ (\A r \in Requests : req[r].pc \in {"idle", "done"}) =>
       csv_file = complaints

====
